---------------------------- MODULE Spec2Model ----------------------------
(***************************************************************************)
(* A model of the playlist statistics scripts of crshow:                   *)
(*   .github/scripts/update_stats.py      (classifier, snapshot store,     *)
(*                                         header rewriter, orchestrator)  *)
(*   .github/scripts/update_m3u_stats.py  (the older one-line header)      *)
(*                                                                         *)
(* Text is modelled character by character: a text is a sequence of        *)
(* one-character strings, with the named characters below standing for     *)
(* the control characters and for the bytes that matter to decoding.       *)
(*                                                                         *)
(* Three specifications share the variables:                               *)
(*   SpecClassify  count_media_entries on bounded texts                    *)
(*   SpecRewrite   update_file_header applied repeatedly to one file, on   *)
(*                 either platform                                         *)
(*   Spec          runs of main over four playlists, on linux              *)
(*                                                                         *)
(* Scope: JSON numbers of a snapshot are integers (no floats); the glob    *)
(* yields the playlists in one fixed order; `"stats" not in str(f)` is     *)
(* taken on path components; the clock moves by at most one second per     *)
(* step; the files given to SpecRewrite hold no form feed and no lone      *)
(* carriage return; Spec starts either from every kind of stored snapshot  *)
(* without I/O errors, or from every combination of failing playlists with *)
(* plain snapshots.                                                        *)
(***************************************************************************)
EXTENDS Integers, Sequences, FiniteSets, TLC

VARIABLES
    content,        \* count_media_entries: the text handed to the classifier
    stats,          \* count_media_entries: the returned counts (or "none")
    platform,       \* sys.platform of the interpreter running the script
    clock,          \* seconds shown by get_local_time()
    file,           \* header rewriter: bytes on disk of the file rewritten
    before,         \* header rewriter: bytes on disk before the last rewrite
    orig,           \* header rewriter: bytes on disk before the first rewrite
    current_stats,  \* header rewriter: the counts passed in
    prev_stats,     \* header rewriter: the previous stats passed in
    napplied,       \* header rewriter: applications of update_file_header so far
    disk,           \* run: path -> bytes on disk of each playlist
    faults,         \* run: path -> the I/O fault the environment holds for it
    stats_dir,      \* run: file name -> content of stats/<name>.json
    force_update,   \* run: main's force_update
    pc,             \* run: main's position
    idx,            \* run: index into m3u_files of the next file to process
    results,        \* run: main's results list
    report,         \* run: the printed summary
    last,           \* run: what the last process_file call was given
    runs,           \* run: runs of main started so far
    edits           \* run: edits of playlists by their authors so far

cvars == <<content, stats>>
hvars == <<file, before, orig, current_stats, prev_stats, napplied>>
rvars == <<disk, faults, stats_dir, force_update, pc, idx, results, report, last, runs, edits>>
vars == <<content, stats, platform, clock, file, before, orig, current_stats,
          prev_stats, napplied, disk, faults, stats_dir, force_update, pc, idx,
          results, report, last, runs, edits>>

\* sys.platform: decides os.linesep, which text mode writes for "\n"
Platforms == {"linux", "win32"}

----------------------------------------------------------------------------
(* Characters *)

LF == "LF"      \* "\n"
CR == "CR"      \* "\r"
FF == "FF"      \* "\f", one of the other line boundaries of str.splitlines
TAB == "TAB"    \* "\t"
BAD == "xFF"    \* a byte that neither utf-8 nor gbk decodes
GBKZH == "xD6xD0"  \* the gbk bytes of a non-ASCII letter: not valid utf-8
ZH == "ZH"      \* that letter, decoded (utf-8 encodes it on write)

\* str.splitlines: the characters that end a line
LineBoundary == {LF, CR, FF}

\* str.strip: the characters stripped
Whitespace == {" ", TAB, LF, CR, FF}

\* re.IGNORECASE on the letters of the two patterns
Lower(c) ==
    CASE c = "M" -> "m"
      [] c = "U" -> "u"
      [] c = "P" -> "p"
      [] OTHER -> c

----------------------------------------------------------------------------
(* Strings *)

RECURSIVE Join(_, _)
\* sep.join(lines)
Join(sep, lines) ==
    IF lines = <<>> THEN <<>>
    ELSE IF Len(lines) = 1 THEN lines[1]
    ELSE lines[1] \o sep \o Join(sep, Tail(lines))

\* The numbers of S, a subset of 1..n, in order
Ordered(S, n) == SelectSeq([i \in 1..n |-> i], LAMBDA i : i \in S)

\* s cut at its boundaries, the k-th of them running from starts[k] to
\* ends[k]: the text between the boundaries, and what follows the last
\* boundary unless that is empty
CutAt(s, starts, ends) ==
    LET n == Len(ends)
        ended == [k \in 1..n |->
                     SubSeq(s, IF k = 1 THEN 1 ELSE ends[k - 1] + 1, starts[k] - 1)]
        lastEnd == IF n = 0 THEN 0 ELSE ends[n]
    IN  IF lastEnd < Len(s) THEN Append(ended, SubSeq(s, lastEnd + 1, Len(s))) ELSE ended

\* str.splitlines(): a line boundary is one of the boundary characters, or
\* "\r\n" taken as one
SplitLines(s) ==
    LET ends == Ordered({i \in 1..Len(s) :
                            s[i] \in LineBoundary
                            /\ ~(s[i] = CR /\ i < Len(s) /\ s[i + 1] = LF)}, Len(s))
        starts == [k \in 1..Len(ends) |->
                      IF s[ends[k]] = LF /\ ends[k] > 1 /\ s[ends[k] - 1] = CR
                      THEN ends[k] - 1 ELSE ends[k]]
    IN  CutAt(s, starts, ends)

RECURSIVE LStrip(_)
LStrip(s) ==
    IF s # <<>> /\ Head(s) \in Whitespace THEN LStrip(Tail(s)) ELSE s

RECURSIVE RStrip(_)
RStrip(s) ==
    IF s # <<>> /\ s[Len(s)] \in Whitespace
    THEN RStrip(SubSeq(s, 1, Len(s) - 1)) ELSE s

\* str.strip()
Strip(s) == RStrip(LStrip(s))

\* str.startswith(prefix)
StartsWith(s, prefix) ==
    Len(s) >= Len(prefix) /\ SubSeq(s, 1, Len(prefix)) = prefix

\* The substring test `sub in s`
Contains(s, sub) ==
    \E i \in 1..(Len(s) - Len(sub) + 1) : SubSeq(s, i, i + Len(sub) - 1) = sub

\* One decimal digit
Digit(d) ==
    CASE d = 0 -> "0" [] d = 1 -> "1" [] d = 2 -> "2" [] d = 3 -> "3"
      [] d = 4 -> "4" [] d = 5 -> "5" [] d = 6 -> "6" [] d = 7 -> "7"
      [] d = 8 -> "8" [] d = 9 -> "9"

RECURSIVE StrNat(_)
StrNat(n) == IF n < 10 THEN <<Digit(n)>> ELSE Append(StrNat(n \div 10), Digit(n % 10))

\* str(n) and f"{n}" of an int
Str(n) == IF n < 0 THEN <<"-">> \o StrNat(0 - n) ELSE StrNat(n)

----------------------------------------------------------------------------
(* Classifier: count_media_entries *)

EXT_M3U8 == <<".", "m", "3", "u", "8">>
EXT_MP4 == <<".", "m", "p", "4">>

LowerAll(s) == [i \in 1..Len(s) |-> Lower(s[i])]

\* The group (\?|$|/) at position j of line: "$" matches at the end of the
\* string and before a newline that ends the string.
BoundaryAt(line, j) ==
    \/ j = Len(line) + 1
    \/ j = Len(line) /\ line[j] = LF
    \/ j <= Len(line) /\ line[j] \in {"?", "/"}

RECURSIVE SearchFrom(_, _, _)
\* re.search scanning for the leftmost position >= i where ext and the
\* boundary group match, ignoring case; 0 when there is none
SearchFrom(ext, line, i) ==
    IF i + Len(ext) - 1 > Len(line) THEN 0
    ELSE IF LowerAll(SubSeq(line, i, i + Len(ext) - 1)) = ext
            /\ BoundaryAt(line, i + Len(ext))
         THEN i
    ELSE SearchFrom(ext, line, i + 1)

\* Mutant of ReSearch: re.IGNORECASE dropped
ReSearchCaseSensitive(ext, line) ==
    \E i \in 1..Len(line) :
        /\ i + Len(ext) - 1 <= Len(line)
        /\ SubSeq(line, i, i + Len(ext) - 1) = ext
        /\ BoundaryAt(line, i + Len(ext))

\* re.search(r'\.<ext>(\?|$|/)', line, re.IGNORECASE) is not None
ReSearch(ext, line) == SearchFrom(ext, line, 1) # 0

ZeroStats == [m3u8 |-> 0, mp4 |-> 0, other |-> 0]

RECURSIVE CountLines(_, _)
\* The loop of count_media_entries over content.splitlines()
CountLines(lines, acc) ==
    IF lines = <<>> THEN acc
    ELSE LET line == Strip(Head(lines)) IN
         IF line = <<>> \/ Head(line) = "#" THEN CountLines(Tail(lines), acc)
         ELSE IF ReSearch(EXT_M3U8, line)
              THEN CountLines(Tail(lines), [acc EXCEPT !.m3u8 = @ + 1])
         ELSE IF ReSearch(EXT_MP4, line)
              THEN CountLines(Tail(lines), [acc EXCEPT !.mp4 = @ + 1])
         ELSE CountLines(Tail(lines), [acc EXCEPT !.other = @ + 1])

count_media_entries(text) == CountLines(SplitLines(text), ZeroStats)

----------------------------------------------------------------------------
(* Text files: Path.read_text and Path.write_text *)

\* bytes.decode('utf-8'): raises UnicodeDecodeError on a byte that is not utf-8
DecodeUtf8(bytes) ==
    [ok |-> \A i \in 1..Len(bytes) : bytes[i] \notin {BAD, GBKZH},
     text |-> bytes]

\* bytes.decode('gbk'): a gbk letter decodes; a byte gbk does not know, and the
\* utf-8 bytes of a non-ASCII letter before an ASCII character, raise
DecodeGbk(bytes) ==
    [ok |-> \A i \in 1..Len(bytes) : bytes[i] \notin {BAD, ZH},
     text |-> [i \in 1..Len(bytes) |-> IF bytes[i] = GBKZH THEN ZH ELSE bytes[i]]]

\* Text mode with newline=None on reading: "\r\n" and "\r" become "\n" (the
\* "\r" of a "\r\n" is dropped, any other "\r" replaced)
UniversalNewlines(s) ==
    LET kept == Ordered({i \in 1..Len(s) : ~(s[i] = CR /\ i < Len(s) /\ s[i + 1] = LF)},
                        Len(s))
    IN  [k \in 1..Len(kept) |-> IF s[kept[k]] = CR THEN LF ELSE s[kept[k]]]

\* Path.read_text(encoding=...)
read_text(bytes, encoding) ==
    LET d == IF encoding = "utf-8" THEN DecodeUtf8(bytes) ELSE DecodeGbk(bytes)
    IN  [ok |-> d.ok, text |-> UniversalNewlines(d.text)]

\* The try/except of update_file_header and process_file: utf-8, then gbk
ReadContent(bytes) ==
    LET u == read_text(bytes, "utf-8")
    IN  IF u.ok THEN u ELSE read_text(bytes, "gbk")

\* Text mode with newline=None on writing: "\n" becomes os.linesep (the
\* pieces between the "\n"s, joined again by "\r\n")
TranslateNewlines(s, os) ==
    IF os = "win32"
    THEN LET ends == Ordered({i \in 1..Len(s) : s[i] = LF}, Len(s))
             n == Len(ends)
         IN  Join(<<CR, LF>>,
                  [k \in 1..(n + 1) |->
                      SubSeq(s, IF k = 1 THEN 1 ELSE ends[k - 1] + 1,
                             IF k = n + 1 THEN Len(s) ELSE ends[k] - 1)])
    ELSE s

\* Path.write_text(text, encoding='utf-8'): the bytes that reach the disk
write_text(text, os) == TranslateNewlines(text, os)

----------------------------------------------------------------------------
(* Python values read from a snapshot: None, int, bool, str, list, dict.     *)
(* v is the number of an int or bool (an opaque identity for a str); d maps *)
(* the keys of a dict to their values, and for a str or list its domain is  *)
(* the set of keys k with `k in data`.                                     *)

None == [t |-> "None", v |-> 0, d |-> <<>>]
IntV(n) == [t |-> "int", v |-> n, d |-> <<>>]
BoolV(b) == [t |-> "bool", v |-> IF b THEN 1 ELSE 0, d |-> <<>>]
StrV(id) == [t |-> "str", v |-> id, d |-> <<>>]
DictV(f) == [t |-> "dict", v |-> 0, d |-> f]
ListV(keys) == [t |-> "list", v |-> 0, d |-> [k \in keys |-> None]]

\* bool(x)
Truthy(x) ==
    CASE x.t = "None" -> FALSE
      [] x.t \in {"int", "bool"} -> x.v # 0
      [] x.t = "dict" -> DOMAIN x.d # {}
      [] OTHER -> TRUE

\* The dict of a MediaCounts record
StatsDict(s) ==
    DictV([k \in {"m3u8", "mp4", "other"} |->
              IntV(CASE k = "m3u8" -> s.m3u8 [] k = "mp4" -> s.mp4 [] OTHER -> s.other)])

----------------------------------------------------------------------------
(* Header rewriter: format_change, update_file_header *)

STATS_PREFIX == <<"#", " ", "S", "T", "A", "T", "S", ":">>
TITLE_LINE == <<"#", " ", "S", "T", "A", "T", "S", ":", " ", "M", "e", "d", "i", "a", " ",
                "L", "i", "n", "k", "s", " ", "S", "u", "m", "m", "a", "r", "y">>
UPDATED == <<"#", " ", "U", "p", "d", "a", "t", "e", "d", ":", " ">>
TZ_LABEL == <<" ", "(", "U", "T", "C", "+", "8", ")">>
M3U8_LABEL == <<"#", " ", "M", "3", "U", "8", ":", " ">>
MP4_LABEL == <<"#", " ", "M", "P", "4", ":", " ">>
CHANGE_OPEN == <<" ", "(", "C", "h", "a", "n", "g", "e", ":", " ">>
RuleWidth == 50
RULE_LINE == <<"#">> \o [i \in 1..RuleWidth |-> "="]

\* get_local_time().strftime('%Y-%m-%d %H:%M:%S') at second t of the minute
\* the model's clock runs in
Strftime(t) ==
    <<"2", "0", "2", "4", "-", "0", "1", "-", "0", "1", " ", "0", "0", ":", "0", "0", ":">>
    \o <<Digit(t \div 10), Digit(t % 10)>>

\* Mutant of format_change: no sign on a positive change
format_change_nosign(change) == Str(change)

\* format_change(change)
format_change(change) ==
    IF change > 0 THEN <<"+">> \o Str(change)
    ELSE IF change < 0 THEN Str(change)
    ELSE <<"0">>

RECURSIVE RemoveOldStatsTopOnly(_, _)
\* Mutant of RemoveOldStats: only a block at the top of the file is removed
RemoveOldStatsTopOnly(lines, skip_until_empty_line) ==
    IF lines = <<>> THEN <<>>
    ELSE IF skip_until_empty_line
         THEN IF Strip(Head(lines)) = <<>> THEN Tail(lines)
              ELSE RemoveOldStatsTopOnly(Tail(lines), TRUE)
    ELSE IF StartsWith(Strip(Head(lines)), STATS_PREFIX)
         THEN RemoveOldStatsTopOnly(Tail(lines), TRUE)
    ELSE lines

RECURSIVE RemoveOldStats(_, _)
\* The removal loop of update_file_header over content.splitlines()
RemoveOldStats(lines, skip_until_empty_line) ==
    IF lines = <<>> THEN <<>>
    ELSE LET line == Head(lines) IN
         IF StartsWith(Strip(line), STATS_PREFIX)
         THEN RemoveOldStats(Tail(lines), TRUE)
         ELSE IF skip_until_empty_line
              THEN RemoveOldStats(Tail(lines), Strip(line) # <<>>)
         ELSE <<line>> \o RemoveOldStats(Tail(lines), FALSE)

ChangeKeys == {"m3u8", "mp4"}

\* `prev_stats and isinstance(prev_stats, dict)`
UsablePrev(prev) == Truthy(prev) /\ prev.t = "dict"

\* The keys the loop over ["m3u8", "mp4"] subtracts for
ChangedKeys(prev) ==
    IF UsablePrev(prev) THEN ChangeKeys \cap DOMAIN prev.d ELSE {}

\* int - x raises TypeError unless x is a number
ChangesRaise(prev) ==
    \E k \in ChangedKeys(prev) : prev.d[k].t \notin {"int", "bool"}

Count(cur, k) == IF k = "m3u8" THEN cur.m3u8 ELSE cur.mp4

\* changes.get(k, 0)
ChangeOf(cur, prev, k) ==
    IF k \in ChangedKeys(prev) THEN Count(cur, k) - prev.d[k].v ELSE 0

\* stats_lines
StatsLines(cur, prev, t) ==
    << TITLE_LINE,
       UPDATED \o Strftime(t) \o TZ_LABEL,
       M3U8_LABEL \o Str(cur.m3u8) \o CHANGE_OPEN
           \o format_change(ChangeOf(cur, prev, "m3u8")) \o <<")">>,
       MP4_LABEL \o Str(cur.mp4) \o CHANGE_OPEN
           \o format_change(ChangeOf(cur, prev, "mp4")) \o <<")">>,
       RULE_LINE,
       <<>> >>

\* newline = "\r\n" if "\r\n" in content else "\n"
NewlineOf(text) == IF Contains(text, <<CR, LF>>) THEN <<CR, LF>> ELSE <<LF>>

\* new_content of update_file_header, from the decoded content
NewContent(text, cur, prev, t) ==
    LET newline == NewlineOf(text)
        lines == RemoveOldStats(SplitLines(text), FALSE)
    IN  Join(newline, StatsLines(cur, prev, t)) \o newline \o Join(newline, lines)

\* update_file_header(file_path, current_stats, prev_stats) on a file holding
\* bytes: the bytes it leaves, or the exception it raises (the file is then
\* as it was). writable is whether the file can be opened for writing.
update_file_header(bytes, cur, prev, t, os, writable) ==
    LET r == ReadContent(bytes) IN
    IF ~r.ok THEN [ok |-> FALSE, err |-> "UnicodeDecodeError", bytes |-> bytes]
    ELSE IF ChangesRaise(prev) THEN [ok |-> FALSE, err |-> "TypeError", bytes |-> bytes]
    ELSE IF ~writable THEN [ok |-> FALSE, err |-> "PermissionError", bytes |-> bytes]
    ELSE [ok |-> TRUE, err |-> "", bytes |-> write_text(NewContent(r.text, cur, prev, t), os)]

----------------------------------------------------------------------------
(* Bounds of the model *)

MaxLines == 2       \* lines of a text handed to the classifier
MaxBodyLines == 2   \* lines of a file handed to the header rewriter
MaxApply == 2       \* applications of update_file_header to one file
MaxClock == 1       \* seconds the clock may reach
MaxRuns == 2        \* runs of main
MaxEdits == 1       \* edits of a playlist by its author

\* The sequences over S of length at most n
SeqsUpTo(S, n) == UNION {[1..k -> S] : k \in 0..n}

\* How a text's lines are separated on the way in
Separators == {<<LF>>, <<CR, LF>>}

\* lines joined by sep, with or without a separator after the last line
Render(lines, sep, final) == Join(sep, lines) \o (IF final /\ lines # <<>> THEN sep ELSE <<>>)

----------------------------------------------------------------------------
(* The classifier on its own: SpecClassify *)

ClassifyExts ==
    { EXT_M3U8, <<".", "M", "3", "U", "8">>, EXT_MP4, <<".", "m", "P", "4">>,
      <<".", "m", "3", "u">> }

ClassifyTails ==
    { <<>>, <<"?">>, <<"/">>, <<"b">>, <<" ">>, EXT_M3U8, EXT_MP4 }

ClassifyLines ==
    { <<"a">> \o e \o t : e \in ClassifyExts, t \in ClassifyTails }
    \cup { <<>>, <<" ">>, <<"a">>, <<"#", "a">> \o EXT_M3U8, <<" ", "#", "a">> \o EXT_MP4,
           <<"a">> \o EXT_M3U8 \o <<FF>> \o <<"b">> \o EXT_MP4 }

HIdle ==
    /\ file = <<>> /\ before = <<>> /\ orig = <<>>
    /\ current_stats = ZeroStats /\ prev_stats = None /\ napplied = 0

RIdle ==
    /\ disk = <<>> /\ faults = <<>> /\ stats_dir = <<>> /\ force_update = FALSE
    /\ pc = "idle" /\ idx = 0 /\ results = <<>> /\ report = <<>> /\ last = <<>>
    /\ runs = 0 /\ edits = 0

CIdle == content = <<>> /\ stats = <<>>

InitClassify ==
    /\ \E lines \in SeqsUpTo(ClassifyLines, MaxLines), sep \in Separators, final \in BOOLEAN :
           content = Render(lines, sep, final)
    /\ stats = <<>>
    /\ platform = "linux" /\ clock = 0
    /\ HIdle /\ RIdle

\* stats = count_media_entries(content)
Classify ==
    /\ stats = <<>>
    /\ stats' = <<count_media_entries(content)>>
    /\ UNCHANGED <<content, platform, clock, hvars, rvars>>

NextClassify == Classify

SpecClassify == InitClassify /\ [][NextClassify]_vars

\* The classifier of the specification, line by line
RefSkipped(line) == Strip(line) = <<>> \/ Strip(line)[1] = "#"

RefHasExt(line, ext) ==
    LET t == Strip(line) IN
    \E i \in 1..Len(t) :
        /\ i + Len(ext) - 1 <= Len(t)
        /\ \A j \in 1..Len(ext) : Lower(t[i + j - 1]) = ext[j]
        /\ (i + Len(ext) = Len(t) + 1 \/ t[i + Len(ext)] \in {"?", "/"})

RefCategory(line) ==
    IF RefSkipped(line) THEN "skip"
    ELSE IF RefHasExt(line, <<".", "m", "3", "u", "8">>) THEN "m3u8"
    ELSE IF RefHasExt(line, <<".", "m", "p", "4">>) THEN "mp4"
    ELSE "other"

RefCount(lines, cat) == Cardinality({i \in 1..Len(lines) : RefCategory(lines[i]) = cat})

----------------------------------------------------------------------------
(* The header rewriter on its own: SpecRewrite *)

\* The header update_m3u_file writes: one line, no blank line after it
M3U_STATS_LINE ==
    <<"#", " ", "S", "T", "A", "T", "S", ":", " ", "2", "0", "2", "4", " ", "-", " ",
      "T", "o", "t", "a", "l", ":", " ", "1", " ", "-", " ",
      "C", "h", "a", "n", "g", "e", ":", " ", "N", "/", "A">>

ENTRY_M3U8 == <<"a">> \o EXT_M3U8
ENTRY_GBK == <<GBKZH>> \o EXT_MP4
COMMENT_LINE == <<"#", "c">>
PLAIN_STATS == STATS_PREFIX \o <<"y">>
INDENTED_STATS == <<" ">> \o STATS_PREFIX \o <<"x">>

\* The lines a file body is made of: an entry, an author's comment, a blank
\* line, a line of white space, a '# STATS:' line, plain and indented
BodyLines == { ENTRY_M3U8, COMMENT_LINE, <<>>, <<" ">>, PLAIN_STATS, INDENTED_STATS }

\* What a file starts with: nothing, the one-line header of
\* update_m3u_stats.py, or the block an earlier run of update_stats.py wrote
LeadingBlocks ==
    { <<>>,
      <<M3U_STATS_LINE>>,
      StatsLines(ZeroStats, None, 0) }

RewriteParams ==
    { [cur |-> [m3u8 |-> 1, mp4 |-> 0, other |-> 0], prev |-> None],
      [cur |-> [m3u8 |-> 12, mp4 |-> 2, other |-> 0],
       prev |-> StatsDict([m3u8 |-> 10, mp4 |-> 2, other |-> 1])] }

InitRewrite ==
    /\ \E lead \in LeadingBlocks, body \in SeqsUpTo(BodyLines, MaxBodyLines),
          sep \in Separators, final \in BOOLEAN :
           file = Render(lead \o body, sep, final)
    /\ before = file /\ orig = file
    /\ \E p \in RewriteParams : current_stats = p.cur /\ prev_stats = p.prev
    /\ napplied = 0
    /\ platform \in Platforms /\ clock = 0
    /\ CIdle /\ RIdle

\* update_file_header(file_path, current_stats, prev_stats), the clock read by
\* get_local_time() having moved on to t
ApplyUpdate ==
    /\ napplied < MaxApply
    /\ \E t \in {clock, clock + 1} \cap 0..MaxClock :
         LET r == update_file_header(file, current_stats, prev_stats, t, platform, TRUE) IN
         /\ r.ok
         /\ file' = r.bytes
         /\ before' = file
         /\ clock' = t
         /\ napplied' = napplied + 1
    /\ UNCHANGED <<orig, current_stats, prev_stats, platform, cvars, rvars>>

NextRewrite == ApplyUpdate

SpecRewrite == InitRewrite /\ [][NextRewrite]_vars

\* The lines of a file on disk: each ended by "\n" or "\r\n", the last one
\* perhaps by the end of the file
LinesOf(b) ==
    LET ends == Ordered({i \in 1..Len(b) : b[i] = LF}, Len(b))
        starts == [k \in 1..Len(ends) |->
                      IF ends[k] > 1 /\ b[ends[k] - 1] = CR THEN ends[k] - 1 ELSE ends[k]]
    IN  CutAt(b, starts, ends)

IsEntry(line) == Strip(line) # <<>> /\ Strip(line)[1] # "#"

\* The entry lines of a file, in order
EntriesOf(b) == SelectSeq(LinesOf(b), IsEntry)

EndsWith(s, suffix) ==
    Len(s) >= Len(suffix) /\ SubSeq(s, Len(s) - Len(suffix) + 1, Len(s)) = suffix

\* C1 (as claimed): a rewrite keeps every entry line of the file, in order.
C1_EntriesPreserved ==
    napplied >= 1 => EntriesOf(file) = EntriesOf(before)

\* C10: after one or more rewrites the file begins with the five generated
\* lines and a blank line, and no later line starts with '# STATS:'.
C10_SingleHeader ==
    napplied >= 1 =>
        LET L == LinesOf(file) IN
        /\ Len(L) >= 6
        /\ L[1] = TITLE_LINE
        /\ StartsWith(L[2], UPDATED) /\ EndsWith(L[2], TZ_LABEL)
        /\ StartsWith(L[3], M3U8_LABEL \o Str(current_stats.m3u8) \o CHANGE_OPEN)
        /\ StartsWith(L[4], MP4_LABEL \o Str(current_stats.mp4) \o CHANGE_OPEN)
        /\ L[5] = RULE_LINE
        /\ L[6] = <<>>
        /\ \A i \in 2..Len(L) : ~StartsWith(L[i], STATS_PREFIX)
        /\ \A i \in 7..Len(L) : ~StartsWith(Strip(L[i]), STATS_PREFIX)

\* A file that held an earlier block and a '# STATS:' line further down has
\* been rewritten twice
C10_Witness ==
    /\ napplied = 2
    /\ StartsWith(orig, TITLE_LINE)
    /\ \E i \in 7..Len(LinesOf(orig)) : StartsWith(LinesOf(orig)[i], STATS_PREFIX)
    /\ EntriesOf(file) # <<>>

\* What follows the generated block and its blank separator: the bytes after
\* the sixth line break of the file
BodyOf(b) ==
    LET E == Ordered({i \in 1..Len(b) : b[i] = LF}, Len(b))
    IN  IF Len(E) >= 6 THEN SubSeq(b, E[6] + 1, Len(b)) ELSE <<>>

\* The generated block of a rewritten file without its 'Updated' line
HeaderOf(b) == [i \in {1, 3, 4, 5, 6} |-> LinesOf(b)[i]]

\* C2 (as claimed): a second rewrite with the same counts and previous stats
\* leaves the body byte-identical and the header identical but for 'Updated'.
C2_RewriteIdempotent ==
    napplied >= 2 =>
        /\ BodyOf(file) = BodyOf(before)
        /\ HeaderOf(file) = HeaderOf(before)

\* Every line break of b is "\r\n"
AllCRLF(b) ==
    \A i \in 1..Len(b) :
        /\ b[i] = LF => (i > 1 /\ b[i - 1] = CR)
        /\ b[i] = CR => (i < Len(b) /\ b[i + 1] = LF)

\* Every line break of b is "\n"
AllLF(b) == \A i \in 1..Len(b) : b[i] # CR

\* C8 (as claimed): a file holding a CRLF is rewritten with CRLF at every
\* line break, any other file with LF at every line break.
C8_NewlineStylePreserved ==
    napplied >= 1 =>
        IF Contains(before, <<CR, LF>>) THEN AllCRLF(file) ELSE AllLF(file)

----------------------------------------------------------------------------
(* Snapshot store: stats/<name>.json *)

\* What stats/<name>.json holds: no file, bytes that are not utf-8, text that
\* is not JSON, or a JSON value
Absent == [k |-> "absent", val |-> None]
BadBytes == [k |-> "badbytes", val |-> None]
BadJson == [k |-> "badjson", val |-> None]
Json(val) == [k |-> "json", val |-> val]

\* `k in data`: raises TypeError on None and on a number
InRaises(data) == data.t \in {"None", "int", "bool"}

\* get_previous_stats(file_path) with stats/<file_path.name>.json holding snap:
\* the value returned, or the exception that leaves the function
get_previous_stats(snap) ==
    IF snap.k = "absent" THEN [ok |-> TRUE, err |-> "", val |-> None]
    ELSE IF snap.k \in {"badbytes", "badjson"}
         THEN [ok |-> TRUE, err |-> "", val |-> None]
    ELSE IF InRaises(snap.val) THEN [ok |-> FALSE, err |-> "TypeError", val |-> None]
    ELSE IF \A k \in {"m3u8", "mp4"} : k \in DOMAIN snap.val.d
         THEN [ok |-> TRUE, err |-> "", val |-> snap.val]
    ELSE [ok |-> TRUE, err |-> "", val |-> None]

\* Mutant of PrevStatsOf: the snapshot is read whatever force_update is
PrevStatsOfIgnoringForce(force, snap) == get_previous_stats(snap)

\* prev_stats = None if force_update else get_previous_stats(file_path)
PrevStatsOf(force, snap) ==
    IF force THEN [ok |-> TRUE, err |-> "", val |-> None] ELSE get_previous_stats(snap)

SampleLimit == 3

\* [line for line in content.splitlines() if re.search(ext, line, re.IGNORECASE)][:3]
SampleLinks(text, ext) ==
    LET hits == SelectSeq(SplitLines(text), LAMBDA line : Contains(LowerAll(line), ext))
    IN  SubSeq(hits, 1, IF Len(hits) < SampleLimit THEN Len(hits) ELSE SampleLimit)

\* stats_data of process_file, as the JSON written to stats/<name>.json
StatsData(cur, t, path, text) ==
    Json(DictV([k \in {"m3u8", "mp4", "other", "timestamp", "file_path", "sample_links"} |->
        CASE k = "m3u8" -> IntV(cur.m3u8)
          [] k = "mp4" -> IntV(cur.mp4)
          [] k = "other" -> IntV(cur.other)
          [] k = "timestamp" -> [t |-> "str", v |-> t, d |-> <<>>]
          [] k = "file_path" -> [t |-> "str", v |-> 0, d |-> path]
          [] OTHER -> [t |-> "dict", v |-> 0,
                       d |-> [m3u8 |-> SampleLinks(text, EXT_M3U8),
                              mp4 |-> SampleLinks(text, EXT_MP4)]]]))

----------------------------------------------------------------------------
(* Run orchestrator: process_file, main *)

\* file_path.name: the last component of a path
NameOf(path) == path[Len(path)]

\* The I/O errors the environment may hold for a playlist: it cannot be
\* read, it cannot be written, its snapshot cannot be written
Faults == {"none", "read", "write", "stats"}

Failed(path, err) ==
    [status |-> "failed", file |-> path, m3u8 |-> 0, mp4 |-> 0, other |-> 0, error |-> err]

\* process_file(file_path, force_update): the result returned, the bytes the
\* playlist holds afterwards and what stats/<name>.json holds afterwards
process_file(path, bytes, snap, fault, force, t, os) ==
    LET r == ReadContent(bytes)
        cur == count_media_entries(r.text)
        prev == PrevStatsOf(force, snap)
        upd == update_file_header(bytes, cur, prev.val, t, os, fault # "write")
    IN  IF fault = "read"
        THEN [result |-> Failed(path, "PermissionError"), bytes |-> bytes, snap |-> snap]
        ELSE IF ~r.ok
        THEN [result |-> Failed(path, "UnicodeDecodeError"), bytes |-> bytes, snap |-> snap]
        ELSE IF ~prev.ok
        THEN [result |-> Failed(path, prev.err), bytes |-> bytes, snap |-> snap]
        ELSE IF ~upd.ok
        THEN [result |-> Failed(path, upd.err), bytes |-> bytes, snap |-> snap]
        ELSE IF fault = "stats"
        THEN [result |-> Failed(path, "OSError"), bytes |-> upd.bytes, snap |-> snap]
        ELSE [result |-> [status |-> "success", file |-> path, m3u8 |-> cur.m3u8,
                          mp4 |-> cur.mp4, other |-> cur.other, error |-> ""],
              bytes |-> upd.bytes,
              snap |-> StatsData(cur, t, path, r.text)]

\* The playlists on disk; the last one lies in the snapshot directory
PATH_AX == <<"a", "x.m3u">>
PATH_BX == <<"b", "x.m3u">>
PATH_Y == <<"y.m3u">>
PATH_STATS == <<"stats", "old.m3u">>
AllPaths == <<PATH_AX, PATH_BX, PATH_Y, PATH_STATS>>

Range(s) == {s[i] : i \in 1..Len(s)}

\* m3u_files: Path(".").glob("**/*.m3u") without the paths that hold "stats"
\* (here: that have a component "stats"), in the order the glob yields them
m3u_files == SelectSeq(AllPaths, LAMBDA p : p \in DOMAIN disk /\ "stats" \notin Range(p))

RECURSIVE SumOf(_, _)
\* sum(r[k] for r in rs)
SumOf(rs, k) ==
    IF rs = <<>> THEN 0
    ELSE (CASE k = "m3u8" -> Head(rs).m3u8 [] k = "mp4" -> Head(rs).mp4
            [] OTHER -> Head(rs).other) + SumOf(Tail(rs), k)

IsSuccess(r) == r.status = "success"
IsFailure(r) == r.status # "success"

\* The summary main prints from results
Summary(rs) ==
    LET success_files == SelectSeq(rs, IsSuccess)
        failed_files == SelectSeq(rs, IsFailure)
    IN  [succeeded |-> Len(success_files),
         total |-> Len(rs),
         m3u8 |-> SumOf(success_files, "m3u8"),
         mp4 |-> SumOf(success_files, "mp4"),
         other |-> SumOf(success_files, "other"),
         failed |-> [i \in 1..Len(failed_files) |->
                        [file |-> failed_files[i].file, error |-> failed_files[i].error]]]

NoCall == [file |-> <<>>, before |-> <<>>, snap |-> Absent, fault |-> "none", force |-> FALSE]

\* Mutant of LoopDone: a failed file ends the loop
LoopDoneOnFailure(next, n, result) == next > n \/ result.status = "failed"

\* `for file in m3u_files`: the loop ends when the list is exhausted
LoopDone(next, n, result) == next > n

\* main, to the start of its loop: the flag is parsed, the files are found
StartRun ==
    /\ pc = "idle"
    /\ runs < MaxRuns
    /\ \E force \in BOOLEAN : force_update' = force
    /\ runs' = runs + 1
    /\ clock' = IF clock < MaxClock THEN clock + 1 ELSE clock
    /\ idx' = 1
    /\ results' = <<>>
    /\ pc' = IF m3u_files = <<>> THEN "report" ELSE "loop"
    /\ UNCHANGED <<disk, faults, stats_dir, report, last, edits, platform, cvars, hvars>>

\* One turn of main's loop: results.append(process_file(file, force_update))
ProcessNext ==
    /\ pc = "loop"
    /\ LET path == m3u_files[idx]
           out == process_file(path, disk[path], stats_dir[NameOf(path)], faults[path],
                               force_update, clock, platform)
       IN  /\ results' = Append(results, out.result)
           /\ disk' = [disk EXCEPT ![path] = out.bytes]
           /\ stats_dir' = [stats_dir EXCEPT ![NameOf(path)] = out.snap]
           /\ last' = [file |-> path, before |-> disk[path],
                       snap |-> stats_dir[NameOf(path)], fault |-> faults[path],
                       force |-> force_update]
           /\ idx' = idx + 1
           /\ pc' = IF LoopDone(idx + 1, Len(m3u_files), out.result) THEN "report" ELSE "loop"
    /\ UNCHANGED <<faults, force_update, report, runs, edits, platform, clock, cvars, hvars>>

\* main after its loop: the summary is printed
Report ==
    /\ pc = "report"
    /\ report' = Summary(results)
    /\ pc' = "idle"
    /\ UNCHANGED <<disk, faults, stats_dir, force_update, idx, results, last, runs, edits,
                   platform, clock, cvars, hvars>>

\* Between two runs the author of a playlist adds an entry at its end
AuthorEdit ==
    /\ pc = "idle"
    /\ edits < MaxEdits
    /\ \E path \in Range(m3u_files) :
         /\ ReadContent(disk[path]).ok
         /\ disk' = [disk EXCEPT ![path] =
                        @ \o (IF @ = <<>> \/ @[Len(@)] = LF THEN <<>> ELSE <<LF>>)
                          \o ENTRY_M3U8 \o <<LF>>]
    /\ edits' = edits + 1
    /\ UNCHANGED <<faults, stats_dir, force_update, pc, idx, results, report, last, runs,
                   platform, clock, cvars, hvars>>

ENTRY_MP4 == <<"b">> \o EXT_MP4

\* One m3u8 entry and one mp4 entry; one m3u8 entry under the one-line header
\* of update_m3u_stats.py; a gbk entry; bytes no encoding decodes
CONTENT_TWO == ENTRY_M3U8 \o <<LF>> \o ENTRY_MP4 \o <<LF>>
CONTENT_ONE == M3U_STATS_LINE \o <<LF, LF>> \o ENTRY_M3U8
CONTENT_GBK == ENTRY_GBK \o <<LF>>
CONTENT_BAD == <<BAD>> \o ENTRY_M3U8 \o <<LF>>

\* A snapshot as an earlier run of process_file left it
EarlierSnapshot(path, m, p) ==
    StatsData([m3u8 |-> m, mp4 |-> p, other |-> 0], 0, path, <<>>)

\* What stats/x.m3u.json may hold when the model starts
SnapshotInits ==
    { Absent, BadBytes, BadJson,
      Json(IntV(5)), Json(None), Json(ListV({})), Json(ListV({"m3u8", "mp4"})),
      Json(DictV([k \in {"m3u8"} |-> IntV(1)])),
      Json(DictV([k \in {"count", "timestamp"} |-> IF k = "count" THEN IntV(1) ELSE StrV(0)])),
      Json(DictV([k \in {"m3u8", "mp4"} |-> IF k = "m3u8" THEN StrV(1) ELSE IntV(1)])),
      Json(DictV([k \in {"m3u8", "mp4"} |-> IF k = "m3u8" THEN BoolV(TRUE) ELSE IntV(0)])),
      EarlierSnapshot(PATH_AX, 3, 0), EarlierSnapshot(PATH_BX, 0, 1) }

RunIdle ==
    /\ force_update = FALSE /\ pc = "idle" /\ idx = 0 /\ results = <<>>
    /\ report = Summary(<<>>) /\ last = NoCall /\ runs = 0 /\ edits = 0

\* Playlists that decode and an environment without I/O errors, over every
\* kind of stored snapshot
InitSnapshots ==
    /\ \E c \in {CONTENT_ONE, CONTENT_GBK} :
           disk = [p \in Range(AllPaths) |->
                      CASE p = PATH_AX -> CONTENT_TWO
                        [] p = PATH_BX -> CONTENT_ONE
                        [] p = PATH_Y -> c
                        [] OTHER -> CONTENT_ONE]
    /\ faults = [p \in Range(AllPaths) |-> "none"]
    /\ \E sx \in SnapshotInits, sy \in {Absent, EarlierSnapshot(PATH_Y, 0, 2)} :
           stats_dir = [n \in {NameOf(p) : p \in Range(AllPaths)} |->
                           CASE n = "x.m3u" -> sx [] n = "y.m3u" -> sy [] OTHER -> Absent]

\* Every playlist with or without something that makes its processing fail:
\* bytes that do not decode, or one of the I/O errors
InitFailures ==
    /\ \E why \in [{PATH_AX, PATH_BX, PATH_Y} -> Faults \cup {"decode"}] :
           /\ disk = [p \in Range(AllPaths) |->
                         IF p = PATH_STATS THEN CONTENT_ONE
                         ELSE IF why[p] = "decode" THEN CONTENT_BAD
                         ELSE IF p = PATH_AX THEN CONTENT_TWO ELSE CONTENT_ONE]
           /\ faults = [p \in Range(AllPaths) |->
                           IF p = PATH_STATS \/ why[p] = "decode" THEN "none" ELSE why[p]]
    /\ stats_dir = [n \in {NameOf(p) : p \in Range(AllPaths)} |->
                       IF n = "y.m3u" THEN EarlierSnapshot(PATH_Y, 1, 0) ELSE Absent]

Init ==
    /\ InitSnapshots \/ InitFailures
    /\ RunIdle
    /\ platform = "linux" /\ clock = 0
    /\ CIdle /\ HIdle

Next == StartRun \/ ProcessNext \/ Report \/ AuthorEdit

Spec == Init /\ [][Next]_vars

----------------------------------------------------------------------------
(* Claims about process_file and main, under Spec *)

\* A call of process_file has returned in this run; its result
Called == results # <<>>
LastResult == results[Len(results)]

\* The snapshot has the shape process_file writes: an object with integer
\* counts, a timestamp, the path and the sample links
WrittenByRun(snap) ==
    /\ snap.k = "json"
    /\ snap.val.t = "dict"
    /\ DOMAIN snap.val.d = {"m3u8", "mp4", "other", "timestamp", "file_path", "sample_links"}
    /\ \A k \in {"m3u8", "mp4", "other"} : snap.val.d[k].t = "int"

\* The stored snapshot is usable: an object with integer 'm3u8' and 'mp4'
WellFormed(snap) ==
    /\ snap.k = "json"
    /\ snap.val.t = "dict"
    /\ \A k \in {"m3u8", "mp4"} : k \in DOMAIN snap.val.d /\ snap.val.d[k].t = "int"

\* A change as the specification renders it
RefDelta(d) ==
    IF d > 0 THEN <<"+">> \o StrNat(d)
    ELSE IF d < 0 THEN <<"-">> \o StrNat(0 - d)
    ELSE <<"0">>

\* The category line of a header: label, count and change
RefCategoryLine(label, n, change) ==
    label \o StrNat(n) \o <<" ", "(", "C", "h", "a", "n", "g", "e", ":", " ">> \o change \o <<")">>

\* The snapshot holds the counts of result r
HoldsCounts(snap, r) ==
    /\ snap.k = "json"
    /\ snap.val.t = "dict"
    /\ \A k \in {"m3u8", "mp4", "other"} : k \in DOMAIN snap.val.d
    /\ snap.val.d["m3u8"] = IntV(r.m3u8)
    /\ snap.val.d["mp4"] = IntV(r.mp4)
    /\ snap.val.d["other"] = IntV(r.other)

\* C3: without force-update, for a file whose snapshot was written by an
\* earlier successful run and holds counts P, the header shows for m3u8 and
\* mp4 the change current - P: '+d' when positive, '-d' when negative, '0'.
C3_DeltaAgainstSnapshot ==
    (Called /\ LastResult.status = "success" /\ ~last.force /\ WrittenByRun(last.snap)) =>
        LET L == LinesOf(disk[last.file])
            P == last.snap.val.d
        IN  /\ L[3] = RefCategoryLine(M3U8_LABEL, LastResult.m3u8,
                                      RefDelta(LastResult.m3u8 - P["m3u8"].v))
            /\ L[4] = RefCategoryLine(MP4_LABEL, LastResult.mp4,
                                      RefDelta(LastResult.mp4 - P["mp4"].v))

\* A file is processed again after its author added an m3u8 entry: against
\* the snapshot of the run before, m3u8 has grown and mp4 has not changed
C3_Witness ==
    /\ Called /\ LastResult.status = "success" /\ ~last.force
    /\ WrittenByRun(last.snap)
    /\ last.snap.val.d["timestamp"].v >= 1
    /\ LastResult.m3u8 > last.snap.val.d["m3u8"].v
    /\ LastResult.mp4 = last.snap.val.d["mp4"].v
    /\ LastResult.mp4 > 0

\* C4: with force_update the stored snapshot is not consulted (no failure
\* comes from it), the header shows the change '0' for both categories
\* whatever the snapshot holds, and the snapshot then holds the counts of
\* this call.
C4_ForceUpdate ==
    (Called /\ last.force) =>
        /\ LastResult.status = "failed" =>
               LastResult.error \in {"UnicodeDecodeError", "PermissionError", "OSError"}
        /\ LastResult.status = "success" =>
               LET L == LinesOf(disk[last.file]) IN
               /\ L[3] = RefCategoryLine(M3U8_LABEL, LastResult.m3u8, <<"0">>)
               /\ L[4] = RefCategoryLine(MP4_LABEL, LastResult.mp4, <<"0">>)
               /\ HoldsCounts(stats_dir[NameOf(last.file)], LastResult)

\* A forced call has succeeded on a file whose snapshot held other counts
C4_Witness ==
    /\ Called /\ last.force /\ LastResult.status = "success"
    /\ WrittenByRun(last.snap)
    /\ last.snap.val.d["m3u8"].v # LastResult.m3u8
    /\ HoldsCounts(stats_dir[NameOf(last.file)], LastResult)

\* The indices of the successful results
Successes == {i \in 1..Len(results) : results[i].status = "success"}

RECURSIVE RefTotal(_, _)
\* The sum over the indices I of the counts of category k
RefTotal(I, k) ==
    IF I = {} THEN 0
    ELSE LET i == CHOOSE j \in I : TRUE
             n == CASE k = "m3u8" -> results[i].m3u8 [] k = "mp4" -> results[i].mp4
                    [] OTHER -> results[i].other
         IN  n + RefTotal(I \ {i}, k)

\* C5: main processes every discovered file whatever fails: one result per
\* file in order, each failed file recorded with its error, the totals
\* summed over the successful files only.
C5_FailureIsolation ==
    /\ pc = "loop" => Len(results) = idx - 1
    /\ (pc = "idle" /\ runs >= 1) =>
        /\ Len(results) = Len(m3u_files)
        /\ \A i \in 1..Len(results) :
              /\ results[i].file = m3u_files[i]
              /\ results[i].status \in {"success", "failed"}
              /\ results[i].status = "failed" => results[i].error # ""
              /\ (faults[m3u_files[i]] # "none" \/ ~ReadContent(disk[m3u_files[i]]).ok)
                     => results[i].status = "failed"
        /\ report.total = Len(m3u_files)
        /\ report.succeeded = Cardinality(Successes)
        /\ report.m3u8 = RefTotal(Successes, "m3u8")
        /\ report.mp4 = RefTotal(Successes, "mp4")
        /\ report.other = RefTotal(Successes, "other")
        /\ Len(report.failed) = Len(results) - Cardinality(Successes)
        /\ \A i \in 1..Len(results) :
              results[i].status = "failed" =>
                  \E j \in 1..Len(report.failed) :
                      report.failed[j] = [file |-> results[i].file, error |-> results[i].error]

\* Three files, the second undecodable: it is reported failed, the files
\* before and after it succeed and make up the totals
C5_Witness ==
    /\ pc = "idle" /\ runs >= 1
    /\ report.total = 3 /\ report.succeeded = 2
    /\ results[2].status = "failed" /\ results[2].error = "UnicodeDecodeError"
    /\ results[1].status = "success" /\ results[3].status = "success"
    /\ report.m3u8 = results[1].m3u8 + results[3].m3u8
    /\ report.m3u8 > 0

\* C6 (as claimed): whatever unusable snapshot is stored, a call without
\* force-update, on a file that decodes and meets no I/O error, succeeds,
\* shows the change '0' for both categories and overwrites the snapshot
\* with its counts.
C6_SnapshotReadFailsSoft ==
    (Called /\ ~last.force /\ ~WellFormed(last.snap)
        /\ last.fault = "none" /\ ReadContent(last.before).ok) =>
        /\ LastResult.status = "success"
        /\ LinesOf(disk[last.file])[3] = RefCategoryLine(M3U8_LABEL, LastResult.m3u8, <<"0">>)
        /\ LinesOf(disk[last.file])[4] = RefCategoryLine(MP4_LABEL, LastResult.mp4, <<"0">>)
        /\ HoldsCounts(stats_dir[NameOf(last.file)], LastResult)

\* C9 (as claimed): every file has its own snapshot record, which the
\* processing of another file does not replace: when a run has ended, the
\* record of each file it processed successfully is that file's.
C9_OwnSnapshotRecord ==
    (pc = "idle" /\ runs >= 1) =>
        \A i \in 1..Len(results) :
            results[i].status = "success" =>
                LET snap == stats_dir[NameOf(results[i].file)] IN
                /\ HoldsCounts(snap, results[i])
                /\ snap.val.d["file_path"].d = results[i].file

============================================================================
